---- MODULE Spec2Model ----
(***************************************************************************)
(* Model of the regexp package: pattern parser (Thompson construction),    *)
(* NDFA matcher, subset construction, completion and minimization.         *)
(*                                                                         *)
(* Characters are codepoints (integers).  Transition labels are codepoints *)
(* or one of the two sentinels SIGMA (catch-all) and EmptyLabel (the ""    *)
(* label of void transitions).  Nodes live in a heap indexed by Node.id.   *)
(***************************************************************************)
EXTENDS Integers, Sequences, FiniteSets, TLC

VARIABLES
    text,         \* the raw text handed to escape, or NoText
    pattern,      \* the pattern handed to parse (sequence of codepoints), or NoPattern
    flags,        \* the flags handed to parse
    Node_count,   \* Node.count, the global id counter
    nodes,        \* heap: Node.id -> [is_final, transitions]
    stage,        \* class of the automaton currently held by the driver
    nda,          \* initial node of the NDFA, or None
    da,           \* initial node of the DFA, or None
    dca,          \* initial node of the DCFA, or None
    dcma,         \* initial node of the DCMFA, or None
    error,        \* exception that ended expand or parse, or NoError
    matched,      \* outcome of the last match call, or NoMatch
    extended,     \* the extended pattern handed to expand, or NoExtended
    prefix        \* outcome of the last read_lazy / read_greedy call, or NoRead

vars == <<text, pattern, flags, Node_count, nodes, stage, nda, da, dca, dcma, error, matched,
          extended, prefix>>

-----------------------------------------------------------------------------
(* Codepoints of the characters the code names.                            *)

LParen == 40
RParen == 41
Star == 42
Dot == 46
Question == 63
UpperA == 65
UpperB == UpperA + 1
Backslash == 92
LowerA == 97
LowerB == LowerA + 1
LowerZ == 122
Pipe == 124
Tab == 9
Newline == 10
CarriageReturn == 13
Space == 32
Hyphen == 45
Zero == 48
Nine == 57
LBracket == 91
RBracket == 93
Underscore == 95
LowerD == 100
LowerS == 115
LowerW == 119
SigmaChar == 931
EpsilonChar == 949

(* Sentinels: none of them is a codepoint.                                 *)
SIGMA == 0 - 1
EmptyLabel == 0 - 2
None == 0 - 3

IGNORE_CASE == 1

\* a variable that holds no string yet
NoText == <<None>>
NoPattern == <<None>>

NoError == [status |-> "ok", message |-> "", index |-> None]
\* what a call of match hands back: a bool, or the exception it raised
Returned(value) == [raised |-> "None", value |-> value]
Raise(kind) == [raised |-> kind, value |-> FALSE]

NoMatch == [class |-> "None", string |-> <<>>, result |-> FALSE, raised |-> "None"]

NoExtended == <<None>>
NoRead == [op |-> "None", string |-> <<>>, length |-> None, raised |-> "None"]

-----------------------------------------------------------------------------
(* Bounds of the model.                                                    *)

MaxPatLen == 4
MaxStrLen == 2

SeqsUpTo(S, n) == UNION {[1..k -> S] : k \in 0..n}

-----------------------------------------------------------------------------
(* Heap of nodes.  H is a record [count, nodes].                           *)

trap_node == 0

\* Node.__init__ + NDN.__init__ / DN.__init__: a node without transitions
NewNode(H, is_final) ==
    [count |-> H.count + 1,
     nodes |-> H.nodes @@ (H.count :> [is_final |-> is_final, transitions |-> <<>>])]

\* NDN.add: self.transitions[char].add(node) on a defaultdict(set)
NDN_add(H, self, char, node) ==
    [H EXCEPT !.nodes[self].transitions =
        IF char \in DOMAIN @ THEN [@ EXCEPT ![char] = @ \cup {node}]
                             ELSE @ @@ (char :> {node})]

\* NDN.read: self.transitions.get(char, set())
NDN_read(ns, self, char) ==
    IF char \in DOMAIN ns[self].transitions THEN ns[self].transitions[char] ELSE {}

\* DN.add: self.transitions[char] = node
DN_add(H, self, char, node) ==
    [H EXCEPT !.nodes[self].transitions =
        IF char \in DOMAIN @ THEN [@ EXCEPT ![char] = node]
                             ELSE @ @@ (char :> node)]

\* a read of the explicit transition only, without the fallback on SIGMA
DN_read_explicit_only(ns, self, char) ==
    IF char \in DOMAIN ns[self].transitions THEN ns[self].transitions[char] ELSE None

\* DN.read: self.transitions.get(char) or self.transitions.get(SIGMA)
DN_read(ns, self, char) ==
    IF char \in DOMAIN ns[self].transitions THEN ns[self].transitions[char]
    ELSE IF SIGMA \in DOMAIN ns[self].transitions THEN ns[self].transitions[SIGMA]
    ELSE None

\* a trap node without its self-loop
InitialHeap_no_self_loop == NewNode([count |-> 0, nodes |-> <<>>], FALSE)

\* module level of nodes.py: trap_node = DN(False); trap_node.add(SIGMA, trap_node)
InitialHeap ==
    DN_add(NewNode([count |-> 0, nodes |-> <<>>], FALSE), trap_node, SIGMA, trap_node)

-----------------------------------------------------------------------------
(* pattern.py: parse                                                       *)

Max(a, b) == IF a >= b THEN a ELSE b
Min(a, b) == IF a <= b THEN a ELSE b

\* ParsingError.__init__: message, index and the +-3 snippet of the pattern
ParsingError(message, pat, index) ==
    [status |-> "ParsingError", message |-> message, index |-> index,
     substr |-> SubSeq(pat, Max(index - 3, 0) + 1, Min(index + 3, Len(pat)))]

\* an exception that is not a ParsingError
Raised(kind) == [status |-> kind, message |-> "", index |-> None, substr |-> <<>>]

\* parse.kleene(start, start_in, *ends_in)
RECURSIVE kleene_ends(_, _, _, _)
kleene_ends(H, ends_in, start_in, end) ==
    IF ends_in = <<>> THEN H
    ELSE kleene_ends(NDN_add(NDN_add(H, Head(ends_in), EmptyLabel, start_in),
                             Head(ends_in), EmptyLabel, end),
                     Tail(ends_in), start_in, end)

\* kleene without the edges from the body's exits back to its entry
kleene_no_back_edge(H, start, start_in, ends_in) ==
    LET end == H.count
        H1 == NewNode(H, FALSE)
        H2 == NDN_add(NDN_add(H1, start, EmptyLabel, start_in), start, EmptyLabel, end)
        ends == {ends_in[i] : i \in 1..Len(ends_in)}
    IN [H |-> [H2 EXCEPT !.nodes =
                 [n \in DOMAIN @ |->
                    IF n \in ends THEN [@[n] EXCEPT !.transitions = @ @@ (EmptyLabel :> {end})]
                    ELSE @[n]]],
        end |-> end]

kleene(H, start, start_in, ends_in) ==
    LET end == H.count
        H1 == NewNode(H, FALSE)
        H2 == NDN_add(NDN_add(H1, start, EmptyLabel, start_in), start, EmptyLabel, end)
    IN [H |-> kleene_ends(H2, ends_in, start_in, end), end |-> end]

\* parse.concat(start, char); comparing SIGMA (an object) with a str raises
concat(H, fl, start, char) ==
    LET new == H.count
        H1 == NDN_add(NewNode(H, FALSE), start, char, new)
    IN IF fl % 2 = IGNORE_CASE
       THEN IF char = SIGMA THEN [status |-> "TypeError", H |-> H1, new |-> new]
            ELSE IF LowerA <= char /\ char <= LowerZ
                 THEN [status |-> "ok", H |-> NDN_add(H1, start, char - 32, new), new |-> new]
            ELSE IF UpperA <= char /\ char <= UpperA
                 THEN [status |-> "ok", H |-> NDN_add(H1, start, char + 32, new), new |-> new]
            ELSE [status |-> "ok", H |-> H1, new |-> new]
       ELSE [status |-> "ok", H |-> H1, new |-> new]

\* what a call of groups hands back: a return value or an exception
GroupsReturn(skip, index, H, pos) ==
    [status |-> "ok", skip |-> skip, index |-> index, H |-> H, pos |-> pos, exc |-> NoError]
GroupsRaise(exc, H, pos) ==
    [status |-> exc.status, skip |-> FALSE, index |-> None, H |-> H, pos |-> pos, exc |-> exc]

\* the kleene call of lines 79 and 117, given the result c of concat
AtomKleene(L, start_in, c) ==
    IF c.status # "ok" THEN [status |-> c.status, L |-> [L EXCEPT !.H = c.H]]
    ELSE [status |-> "ok",
          L |-> [L EXCEPT !.H = kleene(c.H, L.last_node, start_in, <<c.new>>).H,
                          !.last_node = c.H.count, !.skip = TRUE]]

\* last_node = concat(last_node, char) of lines 82 and 120
AtomConcat(L, c) == [status |-> c.status, L |-> [L EXCEPT !.H = c.H, !.last_node = c.new]]

\* body of "if next_char == '*': ... else: ..." shared by the escape branch
\* and the literal branch of groups
AtomStep(L, fl, char, next_char) ==
    IF next_char = Star
    THEN AtomKleene(L, L.H.count, concat(NewNode(L.H, FALSE), fl, L.H.count, char))
    ELSE AtomConcat(L, concat(L.H, fl, L.last_node, char))

RECURSIVE groups(_, _, _, _, _, _, _), groups_loop(_, _, _)

\* the loop goes on after an atom unless concat raised
groups_after_atom(pat, fl, a, escape) ==
    IF a.status # "ok" THEN GroupsRaise(Raised(a.status), a.L.H, a.L.pos)
    ELSE groups_loop(pat, fl, [a.L EXCEPT !.escape = escape])

\* line 96-97: skip, start_index = groups(...); last_node = sub_end
groups_after_sub(pat, fl, L, sub_end, r) ==
    IF r.status # "ok" THEN r
    ELSE groups_loop(pat, fl, [L EXCEPT !.skip = r.skip, !.start_index = r.index,
                                        !.last_node = sub_end, !.H = r.H, !.pos = r.pos])

\* lines 99-105: the ')' branch
groups_close(L, next_char, index) ==
    IF next_char = Star
    THEN GroupsReturn(TRUE, index,
            NDN_add(kleene(L.H, L.start, L.kleene_start, <<L.last_node>> \o L.last_nodes).H,
                    L.H.count, EmptyLabel, L.end),
            L.pos)
    ELSE GroupsReturn(FALSE, index, NDN_add(L.H, L.last_node, EmptyLabel, L.end), L.pos)

\* one iteration of the for loop of parse.groups (lines 74-120) on the item
\* (char, next_char) at index; L holds the locals, the heap H and the position
\* pos of the shared iterator, already advanced
groups_step(pat, fl, L, char, next_char, index) ==
    IF L.escape THEN
        groups_after_atom(pat, fl, AtomStep(L, fl, char, next_char), FALSE)
    ELSE IF char = Backslash THEN
        groups_loop(pat, fl, [L EXCEPT !.escape = TRUE])
    ELSE IF char = Star /\ L.skip THEN
        groups_loop(pat, fl, [L EXCEPT !.skip = FALSE])
    ELSE IF char = Star THEN
        GroupsRaise(ParsingError("Invalid Kleene", pat, index), L.H, L.pos)
    ELSE IF char = LParen THEN
        groups_after_sub(pat, fl, L, L.H.count,
            groups(pat, fl, L.last_node, L.H.count, index + 1, NewNode(L.H, FALSE), L.pos))
    ELSE IF char = RParen THEN
        groups_close(L, next_char, index)
    ELSE IF char = Pipe THEN
        groups_loop(pat, fl, [L EXCEPT !.last_nodes = Append(@, L.last_node),
                                       !.H = NDN_add(@, L.last_node, EmptyLabel, L.end),
                                       !.last_node = L.kleene_start])
    ELSE IF char \notin {EpsilonChar, Question} THEN
        groups_after_atom(pat, fl,
            AtomStep(L, fl, IF char \in {SigmaChar, Dot} THEN SIGMA ELSE char, next_char),
            FALSE)
    ELSE groups_loop(pat, fl, L)

\* parse.groups: the for loop (line 73) and the code after it (lines 122-125)
groups_loop(pat, fl, L) ==
    IF L.pos >= Len(pat)
    THEN IF L.escape
         THEN GroupsRaise(ParsingError("Invalid escape sequence", pat, L.index), L.H, L.pos)
         ELSE GroupsReturn(L.skip, L.index,
                           NDN_add(L.H, L.last_node, EmptyLabel, L.end), L.pos)
    ELSE groups_step(pat, fl,
            [L EXCEPT !.pos = @ + 1, !.index = L.start_index + L.delta_index,
                      !.delta_index = @ + 1],
            pat[L.pos + 1],
            IF L.pos + 2 <= Len(pat) THEN pat[L.pos + 2] ELSE None,
            L.start_index + L.delta_index)

\* parse.groups(start, end, iteratee, start_index): the code before the loop
groups(pat, fl, start, end, start_index, H, pos) ==
    groups_loop(pat, fl,
        [start |-> start, end |-> end, skip |-> FALSE, escape |-> FALSE,
         kleene_start |-> H.count, last_node |-> H.count, last_nodes |-> <<>>,
         index |-> start_index, start_index |-> start_index, delta_index |-> 0,
         H |-> NDN_add(NewNode(H, FALSE), start, EmptyLabel, H.count), pos |-> pos])

\* lines 56-62 of parse.main: after groups returned r.  The raise of line 61
\* passes (message, len(pattern)-1, pattern) to ParsingError(message,
\* pattern, index), whose index-3 on a str is a TypeError
main_after_groups(pat, start, r) ==
    IF r.status # "ok" THEN [exc |-> r.exc, start |-> None, H |-> r.H]
    ELSE IF r.pos < Len(pat) THEN [exc |-> Raised("TypeError"), start |-> None, H |-> r.H]
    ELSE [exc |-> NoError, start |-> start, H |-> r.H]

\* parse.main.  next(p2) on an empty pattern raises StopIteration
main(pat, fl, H) ==
    IF Len(pat) = 0
    THEN [exc |-> Raised("StopIteration"), start |-> None,
          H |-> NewNode(NewNode(H, FALSE), TRUE)]
    ELSE main_after_groups(pat, H.count,
            groups(pat, fl, H.count, H.count + 1, 0, NewNode(NewNode(H, FALSE), TRUE), 0))

parse(pat, fl, H) == main(pat, fl, H)

-----------------------------------------------------------------------------
(* automatons.py: NDFA                                                     *)

\* the elements of a finite set of integers in increasing order
RECURSIVE SortedSeq(_)
SortedSeq(S) ==
    IF S = {} THEN <<>>
    ELSE LET m == CHOOSE x \in S : \A y \in S : x <= y
         IN <<m>> \o SortedSeq(S \ {m})

Range(f) == {f[x] : x \in DOMAIN f}

\* NDFA._expand: the set it leaves in its argument (closure under "" edges)
RECURSIVE NDFA_expand_loop(_, _, _)
NDFA_expand_loop(ns, set, new_nodes) ==
    LET next_nodes == UNION {NDN_read(ns, n, EmptyLabel) : n \in new_nodes}
        new_new_nodes == next_nodes \ set
    IN IF new_new_nodes = {} THEN set
       ELSE NDFA_expand_loop(ns, set \cup new_new_nodes, new_new_nodes)

NDFA_expand(ns, set) == NDFA_expand_loop(ns, set, set)

\* NDFA.match: the for loop over the string
RECURSIVE NDFA_match_loop(_, _, _)
NDFA_match_loop(ns, new_nodes, string) ==
    IF string = <<>> THEN Returned(\E n \in new_nodes : ns[n].is_final)
    ELSE LET char == Head(string)
             read == UNION {NDN_read(ns, n, char) \cup NDN_read(ns, n, SIGMA) : n \in new_nodes}
             expanded == NDFA_expand(ns, read)
         IN IF expanded = {} THEN Returned(FALSE)
            ELSE NDFA_match_loop(ns, expanded, Tail(string))

NDFA_match(ns, initial_node, string) ==
    NDFA_match_loop(ns, NDFA_expand(ns, {initial_node}), string)

-----------------------------------------------------------------------------
(* automatons.py: DFA                                                      *)

\* DFA.match
RECURSIVE DFA_match_loop(_, _, _)
DFA_match_loop(ns, node, string) ==
    IF string = <<>> THEN Returned(ns[node].is_final)
    ELSE LET next == DN_read(ns, node, Head(string))
         IN IF next = None THEN Returned(FALSE)
            ELSE DFA_match_loop(ns, next, Tail(string))

DFA_match(ns, initial_node, string) == DFA_match_loop(ns, initial_node, string)

\* the labels of a set of NDFA nodes, "" kept
Alphabet_with_empty(ns, cur_nodes) ==
    UNION {DOMAIN ns[n].transitions : n \in cur_nodes}

\* the labels of a set of NDFA nodes, "" removed (lines 184-187)
Alphabet(ns, cur_nodes) ==
    (UNION {DOMAIN ns[n].transitions : n \in cur_nodes}) \ {EmptyLabel}

\* a cell made of the targets alone, without what "" reaches from them
Cell_no_closure(ns, cur_nodes, char) ==
    UNION {NDN_read(ns, n, char) : n \in cur_nodes}

\* one cell of the derivation table (lines 191-196): targets = node.read(char)
\* is expanded for every node of cur_nodes and the results are united
Cell(ns, cur_nodes, char) ==
    UNION {NDFA_expand(ns, NDN_read(ns, n, char)) : n \in cur_nodes}

\* nda._expand(targets) of line 194 works on the set object stored in
\* node.transitions[char]: the stored set is left holding its closure
ExpandStored(ns, cur_nodes) ==
    [n \in DOMAIN ns |->
        IF n \in cur_nodes
        THEN [ns[n] EXCEPT !.transitions =
                [c \in DOMAIN @ |-> IF c = EmptyLabel THEN @[c] ELSE NDFA_expand(ns, @[c])]]
        ELSE ns[n]]

\* the cells of the chars (in order) that are not yet rows: the pushes of line 198
RECURSIVE Pushes(_, _, _, _)
Pushes(ns, cur_nodes, chars, keys) ==
    IF chars = <<>> THEN <<>>
    ELSE LET cell_nodes == Cell(ns, cur_nodes, Head(chars))
         IN (IF cell_nodes \in Range(keys) THEN <<>> ELSE <<cell_nodes>>)
            \o Pushes(ns, cur_nodes, Tail(chars), keys)

\* lines 183-199 for the set cur_nodes popped from the stack; keys already
\* holds cur_nodes
derivation_step(T, rest, cur_nodes, keys) ==
    [ns |-> ExpandStored(T.ns, cur_nodes),
     stack |-> rest \o Pushes(T.ns, cur_nodes, SortedSeq(Alphabet(T.ns, cur_nodes)), keys),
     keys |-> keys,
     rows |-> [S \in Range(keys) |->
                 IF S = cur_nodes
                 THEN [char \in Alphabet(T.ns, cur_nodes) |-> Cell(T.ns, cur_nodes, char)]
                 ELSE T.rows[S]]]

\* the while loop of lines 182-199.  T is [ns, stack, keys, rows]: keys is the
\* insertion order of derivation_table and rows its content.  Labels are
\* visited in increasing order (the iteration order of a Python set is not
\* specified; the rows do not depend on it, only the ids of the DN do).
RECURSIVE derivation_loop(_)
derivation_loop(T) ==
    IF T.stack = <<>> THEN T
    ELSE derivation_loop(
           derivation_step(T, SubSeq(T.stack, 1, Len(T.stack) - 1), T.stack[Len(T.stack)],
              IF T.stack[Len(T.stack)] \in Range(T.keys) THEN T.keys
              ELSE Append(T.keys, T.stack[Len(T.stack)])))

\* position of a set of NDFA nodes in the derivation table
KeyIndex(keys, S) == CHOOSE i \in 1..Len(keys) : keys[i] = S

\* finality of a row that holds when every member of the set is final
RowIsFinal_all(ns, S) == \A m \in S : ns[m].is_final

\* line 205: is_final = any(map(lambda n: n.is_final, nodes))
RowIsFinal(ns, S) == \E m \in S : ns[m].is_final

\* lines 203-215: one DN per row of the derivation table T, final iff a
\* member of the row's set is final, linked through the table
DFA_from_table(H, initial_nodes, T) ==
    [H |-> [count |-> H.count + Len(T.keys),
            nodes |-> T.ns @@
                [id \in H.count..(H.count + Len(T.keys) - 1) |->
                   [is_final |-> RowIsFinal(T.ns, T.keys[id - H.count + 1]),
                    transitions |->
                       [char \in DOMAIN T.rows[T.keys[id - H.count + 1]] |->
                          H.count + KeyIndex(T.keys, T.rows[T.keys[id - H.count + 1]][char]) - 1]]]],
     initial_node |-> H.count + KeyIndex(T.keys, initial_nodes) - 1,
     table |-> T]

DFA_from_initial(H, initial_nodes) ==
    DFA_from_table(H, initial_nodes,
        derivation_loop([ns |-> H.nodes, stack |-> <<initial_nodes>>,
                         keys |-> <<>>, rows |-> <<>>]))

\* DFA.from_ndfa: returns the heap and the initial node of the DFA
DFA_from_ndfa(H, nda_initial) ==
    DFA_from_initial(H, NDFA_expand(H.nodes, {nda_initial}))

-----------------------------------------------------------------------------
(* automatons.py: DCFA                                                     *)

\* DCFA.match: leaving the loop as soon as the trap node is read.  If read
\* returns None, the next node.read or node.is_final is an AttributeError.
RECURSIVE DCFA_match_loop(_, _, _)
DCFA_match_loop(ns, node, string) ==
    IF string = <<>> THEN Returned(ns[node].is_final)
    ELSE LET next == DN_read(ns, node, Head(string))
         IN IF next = trap_node THEN Returned(FALSE)
            ELSE IF next = None THEN Raise("AttributeError")
            ELSE DCFA_match_loop(ns, next, Tail(string))

\* a match that rejects when it has read nothing
DCFA_match_rejects_empty(ns, initial_node, string) ==
    IF string = <<>> THEN Returned(FALSE) ELSE DCFA_match_loop(ns, initial_node, string)

DCFA_match(ns, initial_node, string) == DCFA_match_loop(ns, initial_node, string)

\* a completion that adds nothing
SetDefaultSigma_skipped(ns, node) == ns

\* a completion that points SIGMA at the trap node whatever the node had
SetDefaultSigma_overwrite(ns, node) ==
    [ns EXCEPT ![node].transitions =
        [c \in DOMAIN @ \cup {SIGMA} |-> IF c = SIGMA THEN trap_node ELSE @[c]]]

\* a completion that also gives the node a transition on a to the trap node
SetDefaultSigma_and_a(ns, node) ==
    [ns EXCEPT ![node].transitions =
        [c \in DOMAIN @ \cup {SIGMA, LowerA} |-> IF c \in DOMAIN @ THEN @[c] ELSE trap_node]]

\* node.transitions.setdefault(SIGMA, trap_node)
SetDefaultSigma(ns, node) ==
    IF SIGMA \in DOMAIN ns[node].transitions THEN ns
    ELSE [ns EXCEPT ![node].transitions = @ @@ (SIGMA :> trap_node)]

\* the while loop of DCFA.from_dfa (lines 261-266)
RECURSIVE from_dfa_loop(_, _, _)
from_dfa_loop(ns, stack, seen) ==
    IF stack = <<>> THEN ns
    ELSE LET node == stack[Len(stack)]
             new_nodes == Range(ns[node].transitions) \ seen
         IN from_dfa_loop(SetDefaultSigma(ns, node),
                          SubSeq(stack, 1, Len(stack) - 1) \o SortedSeq(new_nodes),
                          seen \cup new_nodes)

\* DCFA.from_dfa: completes the nodes of the DFA in place, same initial node
DCFA_from_dfa(H, da_initial) ==
    [H |-> [H EXCEPT !.nodes = from_dfa_loop(H.nodes, <<da_initial>>, {})],
     initial_node |-> da_initial]

-----------------------------------------------------------------------------
(* automatons.py: DCMFA                                                    *)

\* lines 299-306: the nodes reachable from the initial node
RECURSIVE gather(_, _, _)
gather(ns, dca_nodes, new_nodes) ==
    IF new_nodes = {} THEN dca_nodes
    ELSE LET new_nodes_targets == UNION {Range(ns[n].transitions) : n \in new_nodes}
             next == new_nodes_targets \ dca_nodes
         IN gather(ns, dca_nodes \cup next, next)

\* weights that grow by addition: b, 2b, 3b, ...
Pow_linear(b, e) == b * e

RECURSIVE Pow(_, _)
Pow(b, e) == IF e = 0 THEN 1 ELSE b * Pow(b, e - 1)

\* a signature made of the node's own class alone
RECURSIVE derivation_class_only(_, _, _, _, _, _)
derivation_class_only(ns, classes, system, alphabet, rank, node) == classes[node]

\* a signature made of the classes of the targets, without the node's own class
RECURSIVE derivation_targets_only(_, _, _, _, _, _)
derivation_targets_only(ns, classes, system, alphabet, rank, node) ==
    IF rank >= Len(alphabet) THEN 0
    ELSE LET char == alphabet[rank + 1]
         IN (IF char \in DOMAIN ns[node].transitions
             THEN classes[ns[node].transitions[char]] * Pow(system, rank + 1)
             ELSE 0)
            + derivation_targets_only(ns, classes, system, alphabet, rank + 1, node)

\* lines 325-329: the integer a node gets: its class, plus the class of the
\* target of each of its own transitions weighted by system ** (rank + 1)
RECURSIVE derivation(_, _, _, _, _, _)
derivation(ns, classes, system, alphabet, rank, node) ==
    IF rank >= Len(alphabet) THEN classes[node]
    ELSE LET char == alphabet[rank + 1]
         IN (IF char \in DOMAIN ns[node].transitions
             THEN classes[ns[node].transitions[char]] * Pow(system, rank + 1)
             ELSE 0)
            + derivation(ns, classes, system, alphabet, rank + 1, node)

\* lines 331-338: new ids in the order in which the integers are first seen
Renumber(dca_nodes, derivations) ==
    [node \in Range(dca_nodes) |->
        LET first == CHOOSE i \in 1..Len(dca_nodes) :
                        /\ derivations[dca_nodes[i]] = derivations[node]
                        /\ \A j \in 1..(i - 1) : derivations[dca_nodes[j]] # derivations[node]
        IN Cardinality({derivations[dca_nodes[j]] : j \in 1..first})]

StepRecord(classes, system, derivations, new_nodes) ==
    [nodes |-> classes, system |-> system, derivations |-> derivations,
     new_nodes |-> new_nodes, new_system |-> Cardinality(Range(new_nodes)) + 1]

StepOf(dca_nodes, classes, system, derivations) ==
    StepRecord(classes, system, derivations, Renumber(dca_nodes, derivations))

\* one pass of the while loop of lines 321-338 from the assignment classes
RefineStep(ns, dca_nodes, alphabet, classes, system) ==
    StepOf(dca_nodes, classes, system,
           [node \in Range(dca_nodes) |-> derivation(ns, classes, system, alphabet, 0, node)])

\* a loop that stops after its first pass
refine_after_one_pass(ns, dca_nodes, alphabet, step) == <<step>>

\* a loop that makes two passes whatever the first one gives
refine_after_two_passes(ns, dca_nodes, alphabet, step) ==
    <<step, StepOf(dca_nodes, step.new_nodes, step.new_system,
                   [node \in Range(dca_nodes) |->
                      derivation(ns, step.new_nodes, step.new_system, alphabet, 0, node)])>>

\* the while loop of lines 321-338: the passes it makes, in order
RECURSIVE refine(_, _, _, _, _)
refine_after(ns, dca_nodes, alphabet, step) ==
    IF step.new_nodes = step.nodes THEN <<step>>
    ELSE <<step>> \o refine(ns, dca_nodes, alphabet, step.new_nodes, step.new_system)

refine(ns, dca_nodes, alphabet, classes, system) ==
    refine_after(ns, dca_nodes, alphabet, RefineStep(ns, dca_nodes, alphabet, classes, system))

MinimizationRecord(dca_nodes, alphabet, passes) ==
    [dca_nodes |-> dca_nodes, alphabet |-> alphabet, passes |-> passes,
     dca_to_id |-> passes[Len(passes)].nodes]

\* lines 309-338.  alphabet.remove(SIGMA) needs SIGMA to label some node,
\* which holds of every completed automaton.
MinimizationOf(ns, dca_nodes) ==
    MinimizationRecord(dca_nodes,
        SortedSeq((UNION {DOMAIN ns[n].transitions : n \in Range(dca_nodes)}) \ {SIGMA})
            \o <<SIGMA>>,
        refine(ns, dca_nodes,
               SortedSeq((UNION {DOMAIN ns[n].transitions : n \in Range(dca_nodes)}) \ {SIGMA})
                   \o <<SIGMA>>,
               [node \in Range(dca_nodes) |-> IF ns[node].is_final THEN 2 ELSE 1], 3))

\* lines 298-338 of DCMFA.from_dcfa: nodes, alphabet and refinement passes
Minimization(ns, dca_initial) ==
    MinimizationOf(ns, SortedSeq(gather(ns, {dca_initial}, {dca_initial})))

\* position in dca_nodes of the last and of the first node of a class
LastOf(M, id) ==
    CHOOSE i \in 1..Len(M.dca_nodes) :
        /\ M.dca_to_id[M.dca_nodes[i]] = id
        /\ \A j \in (i + 1)..Len(M.dca_nodes) : M.dca_to_id[M.dca_nodes[j]] # id
FirstOf(M, id) ==
    CHOOSE i \in 1..Len(M.dca_nodes) :
        /\ M.dca_to_id[M.dca_nodes[i]] = id
        /\ \A j \in 1..(i - 1) : M.dca_to_id[M.dca_nodes[j]] # id

\* lines 344-357.  Line 344 creates one DN per node of the DCFA and keeps,
\* for each class, the last one created; lines 347-355 give it the
\* transitions of the first node of the class.
Rebuild(H, dca_initial, M, id_to_dcma) ==
    [H |-> [count |-> H.count + Len(M.dca_nodes),
            nodes |-> H.nodes @@
               [new \in H.count..(H.count + Len(M.dca_nodes) - 1) |->
                  [is_final |-> H.nodes[M.dca_nodes[new - H.count + 1]].is_final,
                   transitions |->
                     IF id_to_dcma[M.dca_to_id[M.dca_nodes[new - H.count + 1]]] = new
                     THEN [char \in DOMAIN H.nodes[M.dca_nodes[
                                FirstOf(M, M.dca_to_id[M.dca_nodes[new - H.count + 1]])]].transitions |->
                             id_to_dcma[M.dca_to_id[H.nodes[M.dca_nodes[
                                FirstOf(M, M.dca_to_id[M.dca_nodes[new - H.count + 1]])]].transitions[char]]]]
                     ELSE <<>>]]],
     initial_node |-> id_to_dcma[M.dca_to_id[dca_initial]],
     id_to_dcma |-> id_to_dcma,
     M |-> M]

DCMFA_from_minimization(H, dca_initial, M) ==
    Rebuild(H, dca_initial, M, [id \in Range(M.dca_to_id) |-> H.count + LastOf(M, id) - 1])

\* DCMFA.from_dcfa
DCMFA_from_dcfa(H, dca_initial) ==
    DCMFA_from_minimization(H, dca_initial, Minimization(H.nodes, dca_initial))

-----------------------------------------------------------------------------
(* The prefix reads of a compiled automaton.                               *)

\* a node no input leaves and that is not final: the trap node or the node
\* of its class
Trapped(ns, node) ==
    ~ns[node].is_final /\ \A c \in DOMAIN ns[node].transitions : ns[node].transitions[c] = node

\* read_lazy(s): advance from the initial node and return the smallest
\* prefix length at which the current node is final; 0 if the automaton is
\* trapped or the input exhausted before
RECURSIVE read_lazy_loop(_, _, _, _)
read_lazy_loop(ns, node, string, length) ==
    IF ns[node].is_final THEN length
    ELSE IF string = <<>> \/ Trapped(ns, node) THEN 0
    ELSE IF DN_read(ns, node, Head(string)) = None THEN 0
    ELSE read_lazy_loop(ns, DN_read(ns, node, Head(string)), Tail(string), length + 1)

read_lazy(ns, initial_node, string) == Returned(read_lazy_loop(ns, initial_node, string, 0))

\* the names nodes.py defines at module level
NodesModule == {"Node", "NDN", "DN", "trap_node"}

\* the methods of DN
DN_methods == {"read", "add", "print_transitions"}

\* one iteration of the for loop of PeekDFA.read_greedy (lines 309-314) on
\* the node just read; "continue" stands for the next iteration
read_greedy_step(ns, next_nodes, node, peek, charno) ==
    IF "_trap_node" \notin NodesModule THEN Raise("AttributeError")
    ELSE IF node \in {None, trap_node} THEN Returned(0)
    ELSE IF ~ns[node].is_final THEN Raise("continue")
    ELSE IF peek = None THEN Returned(charno + 1)
    ELSE IF next_nodes = {} THEN Raise("continue")
    ELSE IF "can_read" \notin DN_methods THEN Raise("AttributeError")
    ELSE Raise("continue")

\* the for loop of PeekDFA.read_greedy; falling off its end returns None
RECURSIVE read_greedy_loop(_, _, _, _, _)
read_greedy_after(ns, next_nodes, node, string, charno, r) ==
    IF r.raised # "continue" THEN r
    ELSE read_greedy_loop(ns, next_nodes, node, Tail(string), charno + 1)

read_greedy_loop(ns, next_nodes, node, string, charno) ==
    IF string = <<>> THEN Returned(None)
    ELSE read_greedy_after(ns, next_nodes, DN_read(ns, node, Head(string)), string, charno,
            read_greedy_step(ns, next_nodes, DN_read(ns, node, Head(string)),
                             IF Len(string) >= 2 THEN string[2] ELSE None, charno))

\* PeekDFA.read_greedy(string): next(s2) on the empty string is a
\* StopIteration
read_greedy(ns, initial_node, next_nodes, string) ==
    IF string = <<>> THEN Raise("StopIteration")
    ELSE read_greedy_loop(ns, next_nodes, initial_node, string, 0)

-----------------------------------------------------------------------------
(* pattern.py: escape                                                      *)

\* escape(pattern): a backslash before each of * \ | epsilon ? ( ) Sigma .
RECURSIVE escape(_)
escape(pat) ==
    IF pat = <<>> THEN <<>>
    ELSE (IF Head(pat) \in {Star, Backslash, Pipe, EpsilonChar, Question,
                            LParen, RParen, SigmaChar, Dot}
          THEN <<Backslash, Head(pat)>> ELSE <<Head(pat)>>)
         \o escape(Tail(pat))

-----------------------------------------------------------------------------
(* pattern.py: expand                                                      *)

\* "|".join(items)
RECURSIVE Join(_)
Join(items) ==
    IF items = <<>> THEN <<>>
    ELSE IF Len(items) = 1 THEN items[1]
    ELSE items[1] \o <<Pipe>> \o Join(Tail(items))

\* [escape(chr(c)) for c in range(lo, hi + 1)]
RECURSIVE RangeChars(_, _)
RangeChars(lo, hi) ==
    IF lo > hi THEN <<>> ELSE <<escape(<<lo>>)>> \o RangeChars(lo + 1, hi)

\* the local variable expansion: a list of strings, or, once the backslash
\* branch has assigned it, the str of a shorthand (its characters) or None
ListOf(items) == [kind |-> "list", items |-> items]
StrOf(string) == [kind |-> "str", items |-> [i \in 1..Len(string) |-> <<string[i]>>]]
NoneValue == [kind |-> "None", items |-> <<>>]

\* the state of the loop of expand after an exception
ExpandRaise(E, kind) == [E EXCEPT !.exc = Raised(kind)]

\* expansion.append(item) and expansion.extend(items): str and None have
\* neither method
ExpansionExtend(E, items) ==
    IF E.expansion.kind # "list" THEN ExpandRaise(E, "AttributeError")
    ELSE [E EXCEPT !.expansion = ListOf(@.items \o items)]

\* lines 197-201: the range branch x-y of a class, taken on the look-ahead
\* alone, before the test for the closing bracket
ExpandRange(E, char, next_next_char) ==
    IF next_next_char = None THEN ExpandRaise([E EXCEPT !.skip = 2], "TypeError")
    ELSE ExpansionExtend([E EXCEPT !.skip = 2], RangeChars(char, next_next_char))

\* lines 202-205: the closing bracket; join fails on None and joins the
\* characters of a str
ExpandClose(E) ==
    IF E.expansion.kind = "None" THEN ExpandRaise([E EXCEPT !.expanding = FALSE], "TypeError")
    ELSE [E EXCEPT !.expanding = FALSE,
                   !.out = @ \o <<LParen>> \o Join(E.expansion.items) \o <<RParen>>,
                   !.expansion = ListOf(<<>>)]

\* lines 211-218: a backslash outside a class; token is _tokens.get(next_char)
ExpandBackslash(E, char, token) ==
    IF token # <<>>
    THEN [E EXCEPT !.expansion = StrOf(token), !.skip = 1, !.out = @ \o token]
    ELSE [E EXCEPT !.expansion = NoneValue, !.escape_ = TRUE, !.out = Append(@, char)]

RECURSIVE expand(_)

\* _tokens (lines 226-229); <<>> stands for the None of _tokens.get
tokens(char) ==
    IF char = LowerS
    THEN <<LParen, Space, Pipe, Newline, Pipe, CarriageReturn, Pipe, Tab, RParen>>
    ELSE IF char = LowerD THEN expand(<<LBracket, Zero, Hyphen, Nine, RBracket>>).out
    ELSE IF char = LowerW
    THEN expand(<<LBracket, LowerA, Hyphen, LowerZ, UpperA, Hyphen, UpperA + 25,
                  Zero, Hyphen, Nine, Underscore, RBracket>>).out
    ELSE <<>>

\* one iteration of the for loop of expand (lines 188-222)
expand_step(E, char, next_char, next_next_char) ==
    IF E.skip > 0 THEN [E EXCEPT !.skip = @ - 1]
    ELSE IF E.expanding THEN
        IF E.escape_ THEN ExpansionExtend([E EXCEPT !.escape_ = FALSE], <<(<<char>>)>>)
        ELSE IF char = Backslash THEN [E EXCEPT !.escape_ = TRUE]
        ELSE IF next_char = Hyphen THEN ExpandRange(E, char, next_next_char)
        ELSE IF char = RBracket THEN ExpandClose(E)
        ELSE ExpansionExtend(E, <<escape(<<char>>)>>)
    ELSE IF E.escape_ THEN [E EXCEPT !.escape_ = FALSE, !.out = Append(@, char)]
    ELSE IF char = Backslash THEN ExpandBackslash(E, char, tokens(next_char))
    ELSE IF char = LBracket THEN [E EXCEPT !.expanding = TRUE]
    ELSE [E EXCEPT !.out = Append(@, char)]

\* the for loop of expand over zip_longest(p1, p2, p3), from index idx
RECURSIVE expand_loop(_, _, _)
expand_loop(ext, idx, E) ==
    IF idx > Len(ext) \/ E.exc # NoError THEN E
    ELSE expand_loop(ext, idx + 1,
            expand_step(E, ext[idx],
                        IF idx + 1 <= Len(ext) THEN ext[idx + 1] ELSE None,
                        IF idx + 2 <= Len(ext) THEN ext[idx + 2] ELSE None))

\* expand(extended_pattern): [exc, out], out being the returned string when
\* exc = NoError
expand(ext) ==
    expand_loop(ext, 1,
        [out |-> <<>>, escape_ |-> FALSE, skip |-> 0, expanding |-> FALSE,
         expansion |-> ListOf(<<>>), exc |-> NoError])

-----------------------------------------------------------------------------
(* The driver of tests.py (MatchCase.assertMatch): parse, then the four    *)
(* constructors in sequence, with match called on the automaton of each    *)
(* stage.                                                                  *)

PipelineChars == {LowerA, SigmaChar, Star, Pipe, LParen, RParen}
InputChars == {LowerA, LowerB}
Strings == SeqsUpTo(InputChars, MaxStrLen)

Heap == [count |-> Node_count, nodes |-> nodes]

Parsed == stage # "None" \/ error # NoError

Begin(texts, exts, pats, fls) ==
    /\ text \in texts
    /\ extended \in exts
    /\ pattern \in pats
    /\ flags \in fls
    /\ prefix = NoRead
    /\ Node_count = InitialHeap.count
    /\ nodes = InitialHeap.nodes
    /\ stage = "None"
    /\ nda = None /\ da = None /\ dca = None /\ dcma = None
    /\ error = NoError
    /\ matched = NoMatch

Start(texts, pats, fls) == Begin(texts, {NoExtended}, pats, fls)

\* pattern = escape(text)
Escape ==
    /\ text # NoText /\ pattern = NoPattern
    /\ pattern' = escape(text)
    /\ UNCHANGED <<text, flags, Node_count, nodes, stage, nda, da, dca, dcma, error, matched, extended, prefix>>

\* tests.py lines 7-9: automaton = parse(pattern, flags); NDFA(automaton)
Parse ==
    /\ pattern # NoPattern /\ ~Parsed
    /\ LET r == parse(pattern, flags, Heap)
       IN /\ Node_count' = r.H.count
          /\ nodes' = r.H.nodes
          /\ error' = r.exc
          /\ nda' = r.start
          /\ stage' = IF r.exc = NoError THEN "NDFA" ELSE "None"
    /\ UNCHANGED <<text, pattern, flags, da, dca, dcma, matched, extended, prefix>>

\* DFA.from_ndfa(automaton)
FromNdfa ==
    /\ stage = "NDFA" /\ matched = NoMatch
    /\ LET r == DFA_from_ndfa(Heap, nda)
       IN /\ Node_count' = r.H.count
          /\ nodes' = r.H.nodes
          /\ da' = r.initial_node
    /\ stage' = "DFA"
    /\ UNCHANGED <<text, pattern, flags, nda, dca, dcma, error, matched, extended, prefix>>

\* DCFA.from_dfa(automaton)
FromDfa ==
    /\ stage = "DFA" /\ matched = NoMatch
    /\ LET r == DCFA_from_dfa(Heap, da)
       IN /\ Node_count' = r.H.count
          /\ nodes' = r.H.nodes
          /\ dca' = r.initial_node
    /\ stage' = "DCFA"
    /\ UNCHANGED <<text, pattern, flags, nda, da, dcma, error, matched, extended, prefix>>

\* DCMFA.from_dcfa(automaton)
FromDcfa ==
    /\ stage = "DCFA" /\ matched = NoMatch
    /\ LET r == DCMFA_from_dcfa(Heap, dca)
       IN /\ Node_count' = r.H.count
          /\ nodes' = r.H.nodes
          /\ dcma' = r.initial_node
    /\ stage' = "DCMFA"
    /\ UNCHANGED <<text, pattern, flags, nda, da, dca, error, matched, extended, prefix>>

\* automaton.match(string) on the automaton of the current stage; DCMFA
\* inherits DCFA.match
MatchResult(ns, class, string) ==
    CASE class = "NDFA" -> NDFA_match(ns, nda, string)
      [] class = "DFA" -> DFA_match(ns, da, string)
      [] class = "DCFA" -> DCFA_match(ns, dca, string)
      [] class = "DCMFA" -> DCFA_match(ns, dcma, string)

Match(strings) ==
    /\ stage # "None" /\ matched = NoMatch
    /\ \E string \in strings :
          LET r == MatchResult(nodes, stage, string)
          IN matched' = [class |-> stage, string |-> string,
                         result |-> r.value, raised |-> r.raised]
    /\ UNCHANGED <<text, pattern, flags, Node_count, nodes, stage, nda, da, dca, dcma, error, extended, prefix>>

MatchString == Match(Strings)

\* the pipeline on every pattern over PipelineChars
Init == Start({NoText}, SeqsUpTo(PipelineChars, MaxPatLen), {0})

Next == Parse \/ FromNdfa \/ FromDfa \/ FromDcfa \/ MatchString

Spec == Init /\ [][Next]_vars

-----------------------------------------------------------------------------
(* Further drivers.                                                        *)

\* parse and NDFA.match on every pattern over the canonical grammar
CanonChars == {LowerA, SigmaChar, EpsilonChar, Backslash, LParen, RParen, Pipe, Star}
CanonInputChars == {LowerA, LowerB, Star}

MatchCanon == Match(SeqsUpTo(CanonInputChars, MaxStrLen))

InitParse == Start({NoText}, SeqsUpTo(CanonChars, MaxPatLen), {0})

NextParse == Parse \/ MatchCanon

SpecParse == InitParse /\ [][NextParse]_vars

\* the pipeline on escape(text) for every raw text over TextChars
MaxTextLen == 2
TextChars == {LowerA, Star, Backslash, SigmaChar}

MatchText == Match(SeqsUpTo(TextChars, MaxStrLen))

InitEscape == Start(SeqsUpTo(TextChars, MaxTextLen), {NoPattern}, {0})

NextEscape == Escape \/ Parse \/ FromNdfa \/ FromDfa \/ FromDcfa \/ MatchText

SpecEscape == InitEscape /\ [][NextEscape]_vars

\* the pipeline on patterns of letters, without and with IGNORE_CASE
MaxFlagPatLen == 2
LetterChars == {LowerA, UpperA, LowerB, UpperB}

MatchLetters == Match(SeqsUpTo(LetterChars, MaxStrLen))

InitFlags == Start({NoText}, SeqsUpTo(LetterChars \cup {SigmaChar}, MaxFlagPatLen), {0, IGNORE_CASE})

NextFlags == Parse \/ FromNdfa \/ FromDfa \/ FromDcfa \/ MatchLetters

SpecFlags == InitFlags /\ [][NextFlags]_vars

\* the prefix reads on the minimized automaton of every pattern over ReadChars
MaxReadPatLen == 3
MaxReadStrLen == 3
ReadChars == {LowerA, LowerB, Star, Pipe, SigmaChar}
ReadStrings ==
    SeqsUpTo(InputChars, MaxReadStrLen)
        \cup {<<LowerA, LowerB, LowerB, LowerB, LowerB, LowerB, LowerB>>}

\* automaton.read_lazy(string) on the compiled automaton
ReadLazy ==
    /\ stage = "DCMFA" /\ prefix = NoRead
    /\ \E string \in ReadStrings :
          LET r == read_lazy(nodes, dcma, string)
          IN prefix' = [op |-> "read_lazy", string |-> string,
                        length |-> r.value, raised |-> r.raised]
    /\ UNCHANGED <<text, pattern, flags, Node_count, nodes, stage, nda, da, dca, dcma, error,
                   matched, extended>>

\* PeekDFA(automaton.initial_node).read_greedy(string), without followers
ReadGreedy ==
    /\ stage = "DCMFA" /\ prefix = NoRead
    /\ \E string \in ReadStrings :
          LET r == read_greedy(nodes, dcma, {}, string)
          IN prefix' = [op |-> "read_greedy", string |-> string,
                        length |-> IF r.raised = "None" THEN r.value ELSE None,
                        raised |-> r.raised]
    /\ UNCHANGED <<text, pattern, flags, Node_count, nodes, stage, nda, da, dca, dcma, error,
                   matched, extended>>

InitRead == Start({NoText}, SeqsUpTo(ReadChars, MaxReadPatLen), {0})

NextRead == Parse \/ FromNdfa \/ FromDfa \/ FromDcfa \/ ReadLazy \/ ReadGreedy

SpecRead == InitRead /\ [][NextRead]_vars

\* expand on every extended pattern over ExtChars and on the patterns of
\* TestExtend
MaxExtLen == 4
ExtChars == {LowerA, LowerA + 2, LBracket, RBracket, Hyphen, Backslash, LowerD, Dot, Star}
ExtTests ==
    {<<LBracket, Zero + 3, Hyphen, Zero + 6, LowerB, Hyphen, LowerD, RBracket>>,
     <<LBracket, Zero + 3, Hyphen, Zero + 6, LowerB, Hyphen, LowerD, UpperA + 25, Star, RBracket>>,
     <<LBracket, LowerA, LowerB, RBracket, LowerA, Question>>,
     <<Backslash, LowerS>>, <<Backslash, LowerW>>,
     <<Backslash, LowerA, LBracket, LowerB, LowerA + 2, RBracket>>,
     <<Backslash, LowerD, LBracket, LowerA, LowerB, RBracket>>,
     <<Backslash, LBracket, LowerA, Backslash, RBracket>>,
     <<LBracket, LParen, RParen, LBracket, Backslash, RBracket, Star, Backslash, Backslash,
       SigmaChar, EpsilonChar, RBracket>>}

\* pattern = expand(extended)
ExpandOutcome(r) ==
    /\ pattern' = IF r.exc = NoError THEN r.out ELSE NoPattern
    /\ error' = r.exc

Expand ==
    /\ extended # NoExtended /\ pattern = NoPattern /\ error = NoError
    /\ ExpandOutcome(expand(extended))
    /\ UNCHANGED <<text, flags, Node_count, nodes, stage, nda, da, dca, dcma, matched,
                   extended, prefix>>

InitExpand == Begin({NoText}, SeqsUpTo(ExtChars, MaxExtLen) \cup ExtTests, {NoPattern}, {0})

NextExpand == Expand

SpecExpand == InitExpand /\ [][NextExpand]_vars

\* the pipeline on the pattern (a|b)*abb
MaxBookStrLen == 4
BookPattern == <<LParen, LowerA, Pipe, LowerB, RParen, Star, LowerA, LowerB, LowerB>>
BookInputChars == {LowerA, LowerB, LowerB + 1}

MatchBook == Match(SeqsUpTo(BookInputChars, MaxBookStrLen))

InitBook == Start({NoText}, {BookPattern}, {0})

NextBook == Parse \/ FromNdfa \/ FromDfa \/ FromDcfa \/ MatchBook

SpecBook == InitBook /\ [][NextBook]_vars

\* deterministic automata built by hand with DN(is_final), DN.add and
\* DFA(initial_node): up to MaxDfaNodes nodes after the trap node, any
\* finality, any transitions over DfaLabels between them and the trap node
MaxDfaNodes == 2
DfaLabels == {LowerA, SIGMA}

TransitionMaps(k) == UNION {[D -> 0..k] : D \in SUBSET DfaLabels}

HandBuilt(finals, transitions) ==
    [count |-> InitialHeap.count + Len(finals),
     nodes |-> InitialHeap.nodes @@
        [n \in 1..Len(finals) |-> [is_final |-> finals[n], transitions |-> transitions[n]]]]

InitDfa ==
    /\ \E k \in 1..MaxDfaNodes :
          \E finals \in [1..k -> BOOLEAN] : \E transitions \in [1..k -> TransitionMaps(k)] :
             /\ Node_count = HandBuilt(finals, transitions).count
             /\ nodes = HandBuilt(finals, transitions).nodes
             /\ da \in 1..k
    /\ text = NoText /\ extended = NoExtended /\ pattern = NoPattern /\ flags = 0
    /\ prefix = NoRead
    /\ stage = "DFA"
    /\ nda = None /\ dca = None /\ dcma = None
    /\ error = NoError
    /\ matched = NoMatch

\* match on the minimized automaton
MatchMinimized == stage = "DCMFA" /\ Match(Strings)

NextDfa == FromDfa \/ FromDcfa \/ MatchMinimized

SpecDfa == InitDfa /\ [][NextDfa]_vars


\* the pipeline from a pattern or from a hand-built automaton
InitAny == Init \/ InitDfa

NextAny == Parse \/ FromNdfa \/ FromDfa \/ FromDcfa

SpecAny == InitAny /\ [][NextAny]_vars


-----------------------------------------------------------------------------
(* Properties.                                                             *)

\* the nodes reachable from a deterministic node
Reachable(ns, initial_node) == gather(ns, {initial_node}, {initial_node})

\* the initial node of the automaton of a class
InitialOf(class) ==
    CASE class = "NDFA" -> nda
      [] class = "DFA" -> da
      [] class = "DCFA" -> dca
      [] class = "DCMFA" -> dcma

\* the nodes read(...) walks through on a string, None once a read fails
RECURSIVE Run(_, _, _)
Run(ns, node, string) ==
    IF string = <<>> THEN <<node>>
    ELSE <<node>> \o Run(ns, IF node = None THEN None ELSE DN_read(ns, node, Head(string)),
                         Tail(string))

\* whether the run of a string from a deterministic node ends in a final node
Accepts(ns, node, string) ==
    LET run == Run(ns, node, string)
        last == run[Len(run)]
    IN last # None /\ ns[last].is_final

\* C1: the automaton of every stage returns the same match(s) as the NDFA
\* built from the same pattern.
C1_PipelineEquivalence ==
    matched.class \in {"DFA", "DCFA", "DCMFA"} =>
        /\ matched.raised = "None"
        /\ matched.result = NDFA_match(nodes, nda, matched.string).value

-----------------------------------------------------------------------------
(* The regular language a canonical pattern denotes, read off the grammar  *)
(*   alt := concat ('|' concat)*     concat := atom*                       *)
(*   atom := ('\' CHAR | Sigma | epsilon | CHAR | '(' alt ')') '*'?        *)
(* with the star allowed on a character, an escaped character or a group.  *)

\* position of the first '|' of p at or after i outside every group, 0 if none
RECURSIVE FirstPipe(_, _, _)
FirstPipe(p, i, depth) ==
    IF i > Len(p) THEN 0
    ELSE IF p[i] = Backslash THEN FirstPipe(p, i + 2, depth)
    ELSE IF p[i] = LParen THEN FirstPipe(p, i + 1, depth + 1)
    ELSE IF p[i] = RParen THEN FirstPipe(p, i + 1, depth - 1)
    ELSE IF p[i] = Pipe /\ depth = 0 THEN i
    ELSE FirstPipe(p, i + 1, depth)

\* position of the ')' that closes the group whose inside starts at i, 0 if none
RECURSIVE CloseParen(_, _, _)
CloseParen(p, i, depth) ==
    IF i > Len(p) THEN 0
    ELSE IF p[i] = Backslash THEN CloseParen(p, i + 2, depth)
    ELSE IF p[i] = LParen THEN CloseParen(p, i + 1, depth + 1)
    ELSE IF p[i] = RParen THEN (IF depth = 0 THEN i ELSE CloseParen(p, i + 1, depth - 1))
    ELSE CloseParen(p, i + 1, depth)

\* length of the atom (without its star) at the head of p, 0 if there is none
AtomLen(p) ==
    IF p[1] = Backslash THEN (IF Len(p) >= 2 THEN 2 ELSE 0)
    ELSE IF p[1] = LParen THEN CloseParen(p, 2, 0)
    ELSE IF p[1] \in {RParen, Pipe, Star} THEN 0
    ELSE 1

Starred(p, n) == n < Len(p) /\ p[n + 1] = Star
AfterAtom(p, n) == SubSeq(p, n + (IF Starred(p, n) THEN 2 ELSE 1), Len(p))

RECURSIVE WellFormedAlt(_), WellFormedConcat(_)
WellFormedAlt(p) ==
    LET k == FirstPipe(p, 1, 0)
    IN IF k = 0 THEN WellFormedConcat(p)
       ELSE WellFormedConcat(SubSeq(p, 1, k - 1)) /\ WellFormedAlt(SubSeq(p, k + 1, Len(p)))

WellFormedConcat(p) ==
    \/ p = <<>>
    \/ LET n == AtomLen(p)
       IN /\ n > 0
          /\ p[1] = LParen => WellFormedAlt(SubSeq(p, 2, n - 1))
          /\ Starred(p, n) => p[1] # EpsilonChar
          /\ WellFormedConcat(AfterAtom(p, n))

WellFormed(p) == WellFormedAlt(p)

RECURSIVE InAlt(_, _), InConcat(_, _), InAtom(_, _), InStar(_, _)
InAlt(p, s) ==
    LET k == FirstPipe(p, 1, 0)
    IN IF k = 0 THEN InConcat(p, s)
       ELSE InConcat(SubSeq(p, 1, k - 1), s) \/ InAlt(SubSeq(p, k + 1, Len(p)), s)

InConcat(p, s) ==
    IF p = <<>> THEN s = <<>>
    ELSE LET n == AtomLen(p)
             atom == SubSeq(p, 1, n)
         IN \E k \in 0..Len(s) :
              /\ IF Starred(p, n) THEN InStar(atom, SubSeq(s, 1, k))
                                  ELSE InAtom(atom, SubSeq(s, 1, k))
              /\ InConcat(AfterAtom(p, n), SubSeq(s, k + 1, Len(s)))

InAtom(atom, s) ==
    IF atom[1] = Backslash THEN s = <<atom[2]>>
    ELSE IF atom[1] = LParen THEN InAlt(SubSeq(atom, 2, Len(atom) - 1), s)
    ELSE IF atom[1] = SigmaChar THEN Len(s) = 1
    ELSE IF atom[1] = EpsilonChar THEN s = <<>>
    ELSE s = <<atom[1]>>

InStar(atom, s) ==
    \/ s = <<>>
    \/ \E k \in 1..Len(s) :
          InAtom(atom, SubSeq(s, 1, k)) /\ InStar(atom, SubSeq(s, k + 1, Len(s)))

\* C2: parse returns an NDFA for every well-formed canonical pattern of at
\* least one character, and the NDFA it returns accepts a string iff the
\* string is in the regular language the pattern denotes.
C2_ThompsonLanguage ==
    /\ (Parsed /\ pattern # NoPattern /\ pattern # <<>> /\ WellFormed(pattern)) =>
          error = NoError
    /\ (matched.class = "NDFA" /\ WellFormed(pattern)) =>
          /\ matched.raised = "None"
          /\ matched.result = InAlt(pattern, matched.string)

\* C2 witness: a pattern with a star and an alternation has accepted a string
\* of two symbols
C2_Witness ==
    /\ matched.class = "NDFA" /\ WellFormed(pattern)
    /\ Star \in Range(pattern) /\ Pipe \in Range(pattern)
    /\ matched.result /\ Len(matched.string) = 2

-----------------------------------------------------------------------------
(* Minimization, completion and the trap.                                  *)

\* the symbols a deterministic automaton over PipelineChars can tell apart:
\* LowerA is the only concrete label, LowerB stands for every other symbol
\* two nodes accept the same strings iff they agree on every string no longer
\* than the number of nodes
Distinguishable(ns, a, b, n) ==
    \E w \in SeqsUpTo(InputChars, n) : Accepts(ns, a, w) # Accepts(ns, b, w)

\* C3: any two distinct reachable states of the minimized automaton are
\* told apart by some input string.
C3_Minimality ==
    stage = "DCMFA" =>
        LET states == Reachable(nodes, dcma)
        IN \A a \in states : \A b \in states :
              a # b => Distinguishable(nodes, a, b, Cardinality(states))

\* C4: after completion and after minimization every reachable state has a
\* SIGMA transition and read returns a node for every input symbol.
C4_Totality ==
    stage \in {"DCFA", "DCMFA"} =>
        \A n \in Reachable(nodes, InitialOf(stage)) :
            /\ SIGMA \in DOMAIN nodes[n].transitions
            /\ \A c \in InputChars : DN_read(nodes, n, c) # None

\* C4 witness: a minimized automaton of several states, one of which reads a
\* symbol through SIGMA only
C4_Witness ==
    /\ stage = "DCMFA"
    /\ Cardinality(Reachable(nodes, dcma)) >= 3
    /\ \E n \in Reachable(nodes, dcma) : DOMAIN nodes[n].transitions = {SIGMA}

\* the sink of the automaton of a class: the trap node, or the node made for
\* the class of the trap node by DCMFA.from_dcfa; None if the trap node is
\* not part of the automaton
SinkOf(r) == r.id_to_dcma[r.M.dca_to_id[trap_node]]

Sink(class) ==
    IF trap_node \notin Reachable(nodes, dca) THEN None
    ELSE IF class = "DCFA" THEN trap_node
    ELSE SinkOf(DCMFA_from_dcfa(
            [count |-> Node_count - Cardinality(Reachable(nodes, dca)), nodes |-> nodes], dca))

\* C5: once the run of match on a completed or minimized automaton is in
\* the sink, every further symbol leaves it there and match returns False.
C5_TrapAbsorption ==
    matched.class \in {"DCFA", "DCMFA"} =>
        LET run == Run(nodes, InitialOf(matched.class), matched.string)
            sink == Sink(matched.class)
        IN \A i \in 1..Len(run) :
              run[i] = sink =>
                 /\ \A j \in i..Len(run) : run[j] = sink
                 /\ matched.raised = "None" /\ matched.result = FALSE

\* C5 witness: match on a minimized automaton whose run entered the sink
\* before the last symbol
C5_Witness ==
    /\ matched.class = "DCMFA"
    /\ Len(matched.string) = 2
    /\ Run(nodes, dcma, matched.string)[2] = Sink("DCMFA")
    /\ Run(nodes, dcma, matched.string)[1] # Sink("DCMFA")

\* C6: compiling the empty pattern succeeds and the automaton matches the
\* empty string only.
C6_EmptyPattern ==
    (pattern = <<>> /\ Parsed) =>
        /\ error = NoError
        /\ matched # NoMatch => matched.result = (matched.string = <<>>)

\* C7: the automaton compiled from escape(t) matches t and nothing else,
\* for every raw text t, the empty text included.
C7_EscapeMatchesText ==
    (text # NoText /\ Parsed) =>
        /\ error = NoError
        /\ matched.class = "DCMFA" =>
              (matched.raised = "None" /\ matched.result = (matched.string = text))

\* the letter of the other case
OppositeCase(c) == IF c >= LowerA THEN c - 32 ELSE c + 32
IsLetter(c) == (LowerA <= c /\ c <= LowerZ) \/ (UpperA <= c /\ c <= UpperA + 25)

\* C8: with IGNORE_CASE every transition on an ASCII letter, lower or upper
\* case, has a sibling on the letter of the other case between the same
\* nodes, so a one-letter pattern matches both cases of its letter.
C8_IgnoreCaseSiblings ==
    (flags = IGNORE_CASE /\ stage = "NDFA") =>
        /\ \A n \in DOMAIN nodes : \A c \in DOMAIN nodes[n].transitions :
              (n # trap_node /\ c >= 0 /\ IsLetter(c)) =>
                 /\ OppositeCase(c) \in DOMAIN nodes[n].transitions
                 /\ nodes[n].transitions[c] \subseteq nodes[n].transitions[OppositeCase(c)]
        /\ (Len(pattern) = 1 /\ IsLetter(pattern[1]) /\ matched.class = "NDFA"
            /\ matched.string \in {pattern, <<OppositeCase(pattern[1])>>})
              => matched.result

\* whether the character at position i of p is escaped by a backslash
RECURSIVE BackslashRun(_, _)
BackslashRun(p, i) ==
    IF i >= 1 /\ p[i] = Backslash THEN 1 + BackslashRun(p, i - 1) ELSE 0

Escaped(p, i) == BackslashRun(p, i - 1) % 2 = 1

\* whether every unescaped '(' of p has its ')' and conversely
RECURSIVE Balanced(_, _, _)
Balanced(p, i, depth) ==
    IF i > Len(p) THEN depth = 0
    ELSE IF p[i] = Backslash THEN Balanced(p, i + 2, depth)
    ELSE IF p[i] = LParen THEN Balanced(p, i + 1, depth + 1)
    ELSE IF p[i] = RParen THEN depth > 0 /\ Balanced(p, i + 1, depth - 1)
    ELSE Balanced(p, i + 1, depth)

\* C9: parse rejects every pattern with unbalanced parentheses with the
\* pattern-syntax error ParsingError.
C9_UnbalancedRejected ==
    (pattern # NoPattern /\ Parsed /\ ~Balanced(pattern, 1, 0)) =>
        error.status = "ParsingError"

StarAt(p, i) == p[i] = Star /\ ~Escaped(p, i)

\* the star at i is at the start of the pattern or of a group, after '|' or
\* after another star
NoAtomBefore(p, i) ==
    StarAt(p, i) /\ (i = 1 \/ (~Escaped(p, i - 1) /\ p[i - 1] \in {LParen, Pipe, Star}))

\* the star at i directly follows a literal, an escaped character, SIGMA or ')'
AtomBefore(p, i) ==
    /\ StarAt(p, i) /\ i > 1
    /\ \/ Escaped(p, i - 1)
       \/ p[i - 1] \notin {LParen, Pipe, Star, Backslash, EpsilonChar, Question}

InvalidKleene == error.status = "ParsingError" /\ error.message = "Invalid Kleene"

\* C10: parse fails with ParsingError "Invalid Kleene" on every pattern with
\* an unescaped star that has no atom before it, and never raises that error
\* when every star directly follows an atom.
C10_InvalidKleene ==
    (pattern # NoPattern /\ Parsed) =>
        /\ (\E i \in 1..Len(pattern) : NoAtomBefore(pattern, i)) => InvalidKleene
        /\ InvalidKleene => \E i \in 1..Len(pattern) :
                               StarAt(pattern, i) /\ ~AtomBefore(pattern, i)

-----------------------------------------------------------------------------
(* Errors of parse and of match; the empty input.                          *)

\* C11: parse either returns the start node of an NDFA or raises
\* ParsingError; it never ends with an exception of another kind.
C11_OnlyParsingError ==
    (pattern # NoPattern /\ Parsed) => error.status \in {"ok", "ParsingError"}

\* C12: match on the automaton of every stage returns a boolean for every
\* input string, symbols foreign to the pattern included; it never raises.
C12_MatchNeverRaises ==
    matched # NoMatch =>
        /\ matched.raised = "None"
        /\ matched.result \in BOOLEAN

\* C12 witness: a match on a completed automaton has read two symbols, one of
\* them foreign to the pattern, without reaching the trap node
C12_Witness ==
    /\ matched.class = "DCFA" /\ matched.raised = "None"
    /\ Len(matched.string) = 2 /\ LowerB \in Range(matched.string)
    /\ trap_node \notin Range(Run(nodes, dca, matched.string))

\* C13: on a DFA, a completed DFA and a minimized DFA, match("") is the
\* finality flag of the initial node.
C13_EmptyInput ==
    (matched.class \in {"DFA", "DCFA", "DCMFA"} /\ matched.string = <<>>) =>
        /\ matched.raised = "None"
        /\ matched.result = nodes[InitialOf(matched.class)].is_final

\* C13 witness: a minimized automaton with a final initial node has
\* accepted the empty string
C13_Witness ==
    /\ matched.class = "DCMFA" /\ matched.string = <<>>
    /\ nodes[dcma].is_final /\ matched.result

\* C14: the minimized automaton of (a|b)*abb has exactly 5 states reachable
\* from its initial node: four that are not the sink, one of them final,
\* and the sink.
C14_BookFiveStates ==
    (pattern = BookPattern /\ stage = "DCMFA") =>
        /\ Cardinality(Reachable(nodes, dcma)) = 5
        /\ Sink("DCMFA") \in Reachable(nodes, dcma)
        /\ Cardinality({n \in Reachable(nodes, dcma) : nodes[n].is_final}) = 1

\* C14 witness: the minimized automaton of (a|b)*abb has accepted abb
C14_Witness ==
    /\ pattern = BookPattern /\ matched.class = "DCMFA"
    /\ matched.string = <<LowerA, LowerB, LowerB>> /\ matched.result

-----------------------------------------------------------------------------
(* The prefix reads.                                                       *)

\* the prefix lengths of a string at which the compiled automaton is in a
\* final node
FinalPrefixes(string) ==
    {k \in 0..Len(string) : Accepts(nodes, dcma, SubSeq(string, 1, k))}

SetMin(S) == CHOOSE k \in S : \A j \in S : k <= j
SetMax(S) == CHOOSE k \in S : \A j \in S : k >= j

\* C15: read_lazy(s) returns the smallest prefix length of s at which the
\* current state is final, and 0 if there is none; it returns 1 for ab* on
\* abbbbbb and 0 for a on b.
C15_ReadLazy ==
    prefix.op = "read_lazy" =>
        /\ prefix.raised = "None"
        /\ prefix.length = IF FinalPrefixes(prefix.string) = {} THEN 0
                           ELSE SetMin(FinalPrefixes(prefix.string))
        /\ (pattern = <<LowerA, LowerB, Star>> /\ Len(prefix.string) = 7) => prefix.length = 1
        /\ (pattern = <<LowerA>> /\ prefix.string = <<LowerB>>) => prefix.length = 0

\* C15 witness: read_lazy has stopped at a final state after two symbols of
\* a longer string
C15_Witness ==
    /\ prefix.op = "read_lazy" /\ prefix.length = 2 /\ Len(prefix.string) = 3

\* C16: read_greedy(s) returns the largest prefix length of s at which a
\* final state was visited, 0 if there is none; it is at least read_lazy(s)
\* and at most the length of s, and it returns 7 for ab* on abbbbbb.
C16_ReadGreedy ==
    prefix.op = "read_greedy" =>
        /\ prefix.raised = "None"
        /\ prefix.length = SetMax(FinalPrefixes(prefix.string) \cup {0})
        /\ prefix.length >= read_lazy(nodes, dcma, prefix.string).value
        /\ prefix.length <= Len(prefix.string)
        /\ (pattern = <<LowerA, LowerB, Star>> /\ Len(prefix.string) = 7) => prefix.length = 7

-----------------------------------------------------------------------------
(* expand.                                                                 *)

\* expand has run on the extended pattern
Expanded == extended # NoExtended /\ (pattern # NoPattern \/ error # NoError)

\* the characters escape puts a backslash before
MetaChars == {Star, Backslash, Pipe, EpsilonChar, Question, LParen, RParen, SigmaChar, Dot}

\* a character with no meaning for expand nor for parse
PlainChar(c) == c \notin MetaChars \cup {LBracket, RBracket, Hyphen}
PlainText(t) == \A i \in 1..Len(t) : PlainChar(t[i])

\* text without brackets and without backslash
OutsideText(t) == \A i \in 1..Len(t) : t[i] \notin {LBracket, RBracket, Backslash}

\* the inside of a class made of plain members and of ranges x-y of plain
\* characters with x <= y
RECURSIVE SimpleClass(_)
SimpleClass(body) ==
    \/ body = <<>>
    \/ /\ Len(body) >= 3 /\ body[2] = Hyphen
       /\ PlainChar(body[1]) /\ PlainChar(body[3]) /\ body[1] <= body[3]
       /\ SimpleClass(SubSeq(body, 4, Len(body)))
    \/ /\ PlainChar(body[1]) /\ (Len(body) >= 2 => body[2] # Hyphen)
       /\ SimpleClass(Tail(body))

\* the members of a simple class in the order written
RECURSIVE Members(_)
Members(body) ==
    IF body = <<>> THEN <<>>
    ELSE IF Len(body) >= 3 /\ body[2] = Hyphen
    THEN [k \in 1..(body[3] - body[1] + 1) |-> body[1] + k - 1]
            \o Members(SubSeq(body, 4, Len(body)))
    ELSE <<body[1]>> \o Members(Tail(body))

\* (m1|m2|...|mn)
Alternation(members) ==
    <<LParen>>
        \o [k \in 1..(2 * Len(members) - 1) |->
               IF k % 2 = 1 THEN members[(k + 1) \div 2] ELSE Pipe]
        \o <<RParen>>

\* extended is plain text, a simple class from i to j, and text without
\* brackets and backslashes
OneClass(i, j) ==
    /\ i < j /\ extended[i] = LBracket /\ extended[j] = RBracket
    /\ PlainText(SubSeq(extended, 1, i - 1))
    /\ SimpleClass(SubSeq(extended, i + 1, j - 1))
    /\ OutsideText(SubSeq(extended, j + 1, Len(extended)))

\* C17: expand rewrites a class into the parenthesised alternation of its
\* members in the order written, a range x-y giving every codepoint from x
\* to y, and treats the text after the closing bracket as outside the class.
C17_ClassExpansion ==
    Expanded =>
        \A i \in 1..Len(extended) : \A j \in 1..Len(extended) :
            OneClass(i, j) =>
                /\ error = NoError
                /\ pattern = SubSeq(extended, 1, i - 1)
                                \o Alternation(Members(SubSeq(extended, i + 1, j - 1)))
                                \o SubSeq(extended, j + 1, Len(extended))

\* whether the scan of p from position i, inside a class or not, ends
\* inside a class: a backslash escapes the next character, an unescaped '['
\* opens a class and an unescaped ']' closes it
RECURSIVE EndsInClass(_, _, _)
EndsInClass(p, i, inside) ==
    IF i > Len(p) THEN inside
    ELSE IF p[i] = Backslash THEN EndsInClass(p, i + 2, inside)
    ELSE IF ~inside THEN EndsInClass(p, i + 1, p[i] = LBracket)
    ELSE EndsInClass(p, i + 1, p[i] # RBracket)

\* whether a class of p holds a range x-y with x > y
RECURSIVE HasReversedRange(_, _, _)
HasReversedRange(p, i, inside) ==
    IF i > Len(p) THEN FALSE
    ELSE IF p[i] = Backslash THEN HasReversedRange(p, i + 2, inside)
    ELSE IF ~inside THEN HasReversedRange(p, i + 1, p[i] = LBracket)
    ELSE IF p[i] = RBracket THEN HasReversedRange(p, i + 1, FALSE)
    ELSE IF i + 2 <= Len(p) /\ p[i + 1] = Hyphen /\ p[i + 2] \notin {RBracket, Backslash}
    THEN p[i] > p[i + 2] \/ HasReversedRange(p, i + 3, TRUE)
    ELSE HasReversedRange(p, i + 1, TRUE)

\* C18: expand fails with ParsingError on every extended pattern with a
\* class that is never closed and on every class with a range whose
\* endpoints are reversed; it returns no expansion for them.
C18_ClassErrors ==
    (Expanded /\ (EndsInClass(extended, 1, FALSE) \/ HasReversedRange(extended, 1, FALSE))) =>
        error.status = "ParsingError"

\* whether the character at position i of p is c and is not escaped
UnescapedAt(p, i, c) == p[i] = c /\ ~Escaped(p, i)

\* number of unescaped occurrences of c in p
Occurrences(p, c) == Cardinality({i \in 1..Len(p) : UnescapedAt(p, i, c)})

\* C19: the output of expand is over the core grammar only: no class
\* written with brackets, no shorthand \s \d \w, and every unescaped '.' of
\* the input appears as Sigma and every unescaped '?' as epsilon.
C19_CanonicalOutput ==
    (Expanded /\ error = NoError) =>
        /\ ~\E i \in 1..Len(pattern) : \E j \in 1..Len(pattern) :
              i < j /\ UnescapedAt(pattern, i, LBracket) /\ UnescapedAt(pattern, j, RBracket)
        /\ ~\E i \in 1..(Len(pattern) - 1) :
              UnescapedAt(pattern, i, Backslash) /\ pattern[i + 1] \in {LowerS, LowerD, LowerW}
        /\ Occurrences(pattern, Dot) = 0 /\ Occurrences(pattern, Question) = 0
        /\ (~EndsInClass(extended, 1, FALSE) /\ LBracket \notin Range(extended)) =>
              /\ Occurrences(pattern, SigmaChar)
                    = Occurrences(extended, SigmaChar) + Occurrences(extended, Dot)
              /\ Occurrences(pattern, EpsilonChar)
                    = Occurrences(extended, EpsilonChar) + Occurrences(extended, Question)

\* extended is text without brackets and backslashes, then a backslash and
\* the character at i + 1, then anything
EscapeAt(i) ==
    /\ i < Len(extended) /\ extended[i] = Backslash
    /\ OutsideText(SubSeq(extended, 1, i - 1))

\* C20: expand copies an escape \x outside a class (x not s, d, w)
\* unchanged and replaces a shorthand by its expansion, and expands what
\* follows as it would on its own; a class that follows is still expanded
\* and expand returns normally.
C20_EscapeThenRest ==
    Expanded =>
        \A i \in 1..Len(extended) :
            (EscapeAt(i) /\ expand(SubSeq(extended, i + 2, Len(extended))).exc = NoError) =>
                /\ error = NoError
                /\ pattern = SubSeq(extended, 1, i - 1)
                                \o (IF extended[i + 1] \in {LowerS, LowerD, LowerW}
                                    THEN tokens(extended[i + 1])
                                    ELSE <<Backslash, extended[i + 1]>>)
                                \o expand(SubSeq(extended, i + 2, Len(extended))).out

\* the inside of a class made of members only: bare characters and escapes
\* \x, without range
RECURSIVE MemberClass(_)
MemberClass(body) ==
    \/ body = <<>>
    \/ /\ body[1] = Backslash /\ Len(body) >= 2 /\ body[2] # Hyphen
       /\ MemberClass(SubSeq(body, 3, Len(body)))
    \/ /\ body[1] \notin {Backslash, RBracket, Hyphen}
       /\ MemberClass(Tail(body))

\* the members of such a class in the order written
RECURSIVE ClassMembers(_)
ClassMembers(body) ==
    IF body = <<>> THEN <<>>
    ELSE IF body[1] = Backslash
    THEN <<body[2]>> \o ClassMembers(SubSeq(body, 3, Len(body)))
    ELSE <<body[1]>> \o ClassMembers(Tail(body))

\* the characters a class can hold in the model
MemberChars == ExtChars \cup MetaChars \cup {LowerB}

\* C21: in the expansion of a class every member that is a metacharacter
\* is preceded by a backslash, whether it was written bare or as \x, so the
\* expansion is a well-formed pattern whose language is exactly the
\* one-character strings that are members of the class.
C21_MembersEscaped ==
    (/\ Expanded
     /\ Len(extended) >= 3 /\ extended[1] = LBracket /\ extended[Len(extended)] = RBracket
     /\ MemberClass(SubSeq(extended, 2, Len(extended) - 1))) =>
        LET members == ClassMembers(SubSeq(extended, 2, Len(extended) - 1))
        IN /\ error = NoError
           /\ pattern = <<LParen>>
                           \o Join([k \in 1..Len(members) |-> escape(<<members[k]>>)])
                           \o <<RParen>>
           /\ WellFormed(pattern)
           /\ \A s \in SeqsUpTo(MemberChars, 2) :
                 InAlt(pattern, s) <=> (Len(s) = 1 /\ s[1] \in Range(members))

-----------------------------------------------------------------------------
(* Minimization as a quotient of the completed automaton.                  *)

\* the heap FromDcfa started from: the nodes DCMFA.from_dcfa created are the
\* last Cardinality(Reachable(nodes, dca)) ones
HeapBefore == [count |-> Node_count - Cardinality(Reachable(nodes, dca)), nodes |-> nodes]

\* two nodes of a class of the partition dca_to_id have the same finality
\* and, label by label, explicit transitions into the same class or no
\* explicit transition
SameClassAlike(ns, dca_to_id) ==
    \A x \in DOMAIN dca_to_id : \A y \in DOMAIN dca_to_id :
        dca_to_id[x] = dca_to_id[y] =>
            /\ ns[x].is_final = ns[y].is_final
            /\ DOMAIN ns[x].transitions = DOMAIN ns[y].transitions
            /\ \A c \in DOMAIN ns[x].transitions :
                  dca_to_id[ns[x].transitions[c]] = dca_to_id[ns[y].transitions[c]]

\* the minimized automaton r is the quotient: the node of a class has the
\* finality of its members and their transitions mapped through the classes
IsQuotient(ns, r) ==
    \A x \in DOMAIN r.M.dca_to_id :
        /\ r.H.nodes[r.id_to_dcma[r.M.dca_to_id[x]]].is_final = ns[x].is_final
        /\ DOMAIN r.H.nodes[r.id_to_dcma[r.M.dca_to_id[x]]].transitions = DOMAIN ns[x].transitions
        /\ \A c \in DOMAIN ns[x].transitions :
              r.H.nodes[r.id_to_dcma[r.M.dca_to_id[x]]].transitions[c]
                 = r.id_to_dcma[r.M.dca_to_id[ns[x].transitions[c]]]

\* the classes of r are alike, r is their quotient and its initial node is
\* the initial node of the minimized automaton
IsSoundQuotient(ns, r) ==
    /\ SameClassAlike(ns, r.M.dca_to_id)
    /\ IsQuotient(ns, r)
    /\ r.initial_node = dcma

\* C22: the minimized automaton returns the same match(s) as the completed
\* automaton it was made from; the states merged into one class have the
\* same finality and, for every label, explicit transitions into the same
\* class, so the node of a class carries the transitions of each member.
C22_MinimizationPreservesLanguage ==
    /\ (stage = "DCMFA" /\ matched = NoMatch) =>
          IsSoundQuotient(nodes, DCMFA_from_dcfa(HeapBefore, dca))
    /\ matched.class = "DCMFA" =>
          /\ matched.raised = "None"
          /\ DCFA_match(nodes, dca, matched.string) = Returned(matched.result)

\* C22 witness: two states of the completed automaton were merged into one
\* class other than the class of the trap node, and the minimized automaton
\* has accepted a string of two symbols
C22_Witness ==
    /\ matched.class = "DCMFA" /\ matched.result /\ Len(matched.string) = 2
    /\ \E x \in Reachable(nodes, dca) : \E y \in Reachable(nodes, dca) :
          /\ x # y
          /\ Minimization(nodes, dca).dca_to_id[x] = Minimization(nodes, dca).dca_to_id[y]
          /\ trap_node \in Reachable(nodes, dca)
          /\ Minimization(nodes, dca).dca_to_id[x] # Minimization(nodes, dca).dca_to_id[trap_node]

-----------------------------------------------------------------------------
(* What a stage leaves alone.                                              *)

\* C23: DFA.from_ndfa only reads the NDFA: every node that existed before
\* the call has the transitions and the finality it had before.
C23_NfaUnchanged ==
    [][FromNdfa => \A n \in DOMAIN nodes : nodes'[n] = nodes[n]]_vars

\* C24: DCFA.from_dfa adds a SIGMA transition to the trap node on exactly
\* the reachable nodes that had no SIGMA transition, and leaves every other
\* transition, every finality, the initial node and every unreachable node
\* as they were; it creates no node.
C24_CompletionFrame ==
    [][FromDfa =>
        /\ dca' = da
        /\ Node_count' = Node_count
        /\ DOMAIN nodes' = DOMAIN nodes
        /\ \A n \in DOMAIN nodes :
              nodes'[n] =
                 IF n \in Reachable(nodes, da) /\ SIGMA \notin DOMAIN nodes[n].transitions
                 THEN [nodes[n] EXCEPT !.transitions = @ @@ (SIGMA :> trap_node)]
                 ELSE nodes[n]]_vars

\* C24 witness: a completed automaton with a reachable node whose SIGMA
\* transition goes to another node than the trap node (it had it before) and
\* a reachable node with a transition on a whose SIGMA transition goes to
\* the trap node
C24_Witness ==
    /\ stage = "DCFA"
    /\ \E n \in Reachable(nodes, dca) \ {trap_node} :
          nodes[n].transitions[SIGMA] \notin {trap_node, n}
    /\ \E n \in Reachable(nodes, dca) \ {trap_node} :
          nodes[n].transitions[SIGMA] = trap_node /\ LowerA \in DOMAIN nodes[n].transitions

-----------------------------------------------------------------------------
(* The refinement loop of DCMFA.from_dcfa.                                 *)

\* no class of the assignment holds a final and a non-final node
KeepsFinality(ns, classes) ==
    \A x \in DOMAIN classes : \A y \in DOMAIN classes :
        classes[x] = classes[y] => ns[x].is_final = ns[y].is_final

\* the first pass starts from class 1 for non-final and 2 for final nodes,
\* and the assignment every pass starts from and the one it ends with keep
\* final and non-final nodes apart
PassesKeepFinality(ns, M) ==
    /\ M.passes[1].nodes = [x \in Range(M.dca_nodes) |-> IF ns[x].is_final THEN 2 ELSE 1]
    /\ \A i \in 1..Len(M.passes) :
          KeepsFinality(ns, M.passes[i].nodes) /\ KeepsFinality(ns, M.passes[i].new_nodes)

\* the node made for a class has the finality of every member of the class
FinalityCarried(ns, r) ==
    \A x \in DOMAIN r.M.dca_to_id :
        r.H.nodes[r.id_to_dcma[r.M.dca_to_id[x]]].is_final = ns[x].is_final

FinalityKept(ns, r) == PassesKeepFinality(ns, r.M) /\ FinalityCarried(ns, r)

\* C25: at every iteration of the minimization loop, from the initial
\* assignment (non-final 1, final 2) on, no class holds both a final and a
\* non-final state, and each node of the minimized automaton has the
\* finality of every member of its class.
C25_ClassesKeepFinality ==
    (stage = "DCMFA" /\ matched = NoMatch) =>
        FinalityKept(nodes, DCMFA_from_dcfa(HeapBefore, dca))

\* C25 witness: a minimization of more than one pass over final and
\* non-final states, in which a class of the initial assignment was split
C25_Witness ==
    /\ stage = "DCMFA"
    /\ Len(Minimization(nodes, dca).passes) >= 2
    /\ \E x \in Reachable(nodes, dca) : \E y \in Reachable(nodes, dca) :
          /\ nodes[x].is_final = nodes[y].is_final
          /\ Minimization(nodes, dca).dca_to_id[x] # Minimization(nodes, dca).dca_to_id[y]
    /\ \E x \in Reachable(nodes, dca) : \E y \in Reachable(nodes, dca) :
          nodes[x].is_final /\ ~nodes[y].is_final

\* the assignment new never puts together two nodes that old keeps apart
Refines(old, new) ==
    \A x \in DOMAIN old : \A y \in DOMAIN old : old[x] # old[y] => new[x] # new[y]

\* every pass refines the assignment it starts from, starts from what the
\* pass before produced, and uses no more classes than there are nodes
PassesRefine(M) ==
    /\ \A i \in 1..Len(M.passes) :
          /\ Refines(M.passes[i].nodes, M.passes[i].new_nodes)
          /\ Cardinality(Range(M.passes[i].new_nodes)) <= Len(M.dca_nodes)
          /\ Range(M.passes[i].new_nodes) = 1..Cardinality(Range(M.passes[i].new_nodes))
    /\ \A i \in 1..(Len(M.passes) - 1) : M.passes[i + 1].nodes = M.passes[i].new_nodes

\* the loop ends with the first pass that produces the assignment it
\* started from, and makes at most one pass more than there are nodes
StopsAtFirstStable(M) ==
    /\ \A i \in 1..(Len(M.passes) - 1) : M.passes[i].new_nodes # M.passes[i].nodes
    /\ M.passes[Len(M.passes)].new_nodes = M.passes[Len(M.passes)].nodes
    /\ M.dca_to_id = M.passes[Len(M.passes)].nodes
    /\ Len(M.passes) <= Len(M.dca_nodes) + 1

RefinesAndStops(M) == PassesRefine(M) /\ StopsAtFirstStable(M)

\* C26: the refinement loop terminates for every completed automaton: each
\* pass refines the partition before it, the number of classes never
\* exceeds the number of reachable states, and the loop exits at the first
\* pass whose assignment equals the one before.
C26_RefinementTerminates ==
    (stage = "DCMFA" /\ matched = NoMatch) => RefinesAndStops(Minimization(nodes, dca))

\* C26 witness: a minimization that needed three passes and ended with as
\* many classes as reachable states
C26_Witness ==
    /\ stage = "DCMFA"
    /\ Len(Minimization(nodes, dca).passes) >= 3
    /\ Cardinality(Range(Minimization(nodes, dca).dca_to_id)) = Cardinality(Reachable(nodes, dca))

-----------------------------------------------------------------------------
(* The integer signature of the refinement.                                *)

\* x and y have the same class and, label by label over the alphabet, both
\* no explicit transition or transitions into the same class
SameSignature(ns, classes, alphabet, x, y) ==
    /\ classes[x] = classes[y]
    /\ \A c \in Range(alphabet) :
          /\ (c \in DOMAIN ns[x].transitions) = (c \in DOMAIN ns[y].transitions)
          /\ c \in DOMAIN ns[x].transitions =>
                classes[ns[x].transitions[c]] = classes[ns[y].transitions[c]]

\* in every pass the base is greater than every class id in use, 3 in the
\* first pass and the number of classes plus one afterwards, and two nodes
\* get the same integer iff they have the same signature
EncodingInjective(ns, M) ==
    \A i \in 1..Len(M.passes) :
        /\ M.passes[i].system = IF i = 1 THEN 3 ELSE Cardinality(Range(M.passes[i].nodes)) + 1
        /\ \A x \in Range(M.dca_nodes) :
              0 < M.passes[i].nodes[x] /\ M.passes[i].nodes[x] < M.passes[i].system
        /\ \A x \in Range(M.dca_nodes) : \A y \in Range(M.dca_nodes) :
              (M.passes[i].derivations[x] = M.passes[i].derivations[y])
                 <=> SameSignature(ns, M.passes[i].nodes, M.alphabet, x, y)

\* C27: in every refinement pass the base is strictly greater than every
\* class id in use (3 at first, class count + 1 afterwards) and an absent
\* transition counts 0, so two states get the same integer iff they have
\* the same class and, position by position, the same target class or
\* both no explicit transition.
C27_SignatureInjective ==
    (stage = "DCMFA" /\ matched = NoMatch) => EncodingInjective(nodes, Minimization(nodes, dca))

\* C27 witness: a pass after the first in which two states got the same
\* integer while some state has a transition on a and some state has none
C27_Witness ==
    /\ stage = "DCMFA"
    /\ Len(Minimization(nodes, dca).passes) >= 2
    /\ \E x \in Reachable(nodes, dca) : \E y \in Reachable(nodes, dca) :
          /\ x # y
          /\ Minimization(nodes, dca).passes[2].derivations[x]
                = Minimization(nodes, dca).passes[2].derivations[y]
    /\ \E x \in Reachable(nodes, dca) : \E y \in Reachable(nodes, dca) :
          /\ LowerA \in DOMAIN nodes[x].transitions
          /\ LowerA \notin DOMAIN nodes[y].transitions

-----------------------------------------------------------------------------
(* Subset construction.                                                    *)

\* the rows of the table are distinct non-empty sets of nodes of the NDFA
RowsAreSets(ns, T) ==
    /\ Len(T.keys) = Cardinality(Range(T.keys))
    /\ \A k \in 1..Len(T.keys) : T.keys[k] # {} /\ T.keys[k] \subseteq DOMAIN ns

\* the nodes first..(first + Len(T.keys) - 1) of after are the deterministic
\* nodes of the rows of T, in order: final iff the row holds a final node of
\* the NDFA, without transition on "", with one node of the automaton as
\* target of each label
NodesOfRows(before, after, first, T) ==
    /\ DOMAIN after = DOMAIN before \cup first..(first + Len(T.keys) - 1)
    /\ \A k \in 1..Len(T.keys) :
          /\ after[first + k - 1].is_final = (\E m \in T.keys[k] : before[m].is_final)
          /\ EmptyLabel \notin DOMAIN after[first + k - 1].transitions
          /\ \A c \in DOMAIN after[first + k - 1].transitions :
                after[first + k - 1].transitions[c] \in first..(first + Len(T.keys) - 1)

\* C28: in the automaton DFA.from_ndfa builds, each state stands for one
\* distinct non-empty set of NDFA nodes, is final iff the set holds a final
\* NDFA node, has no transition on "" and has one target per label.
C28_DfaStates ==
    [][FromNdfa =>
        /\ RowsAreSets(nodes, DFA_from_ndfa(Heap, nda).table)
        /\ Node_count' = Node_count + Len(DFA_from_ndfa(Heap, nda).table.keys)
        /\ NodesOfRows(nodes, nodes', Node_count, DFA_from_ndfa(Heap, nda).table)
        /\ Reachable(nodes', da') = Node_count..(Node_count' - 1)]_vars

\* C28 witness: a DFA of at least three states, final and non-final, built
\* from an NDFA with a node of several targets for one label
C28_Witness ==
    /\ stage = "DFA"
    /\ Cardinality(Reachable(nodes, da)) >= 3
    /\ \E x \in Reachable(nodes, da) : \E y \in Reachable(nodes, da) :
          nodes[x].is_final /\ ~nodes[y].is_final
    /\ \E n \in 1..(da - 1) : \E c \in DOMAIN nodes[n].transitions :
          c # EmptyLabel /\ Cardinality(nodes[n].transitions[c]) >= 2

-----------------------------------------------------------------------------
(* The trap node.                                                          *)

\* C29: the trap node is never modified: after any sequence of parse,
\* subset construction, completion (of an automaton already complete too)
\* and minimization it is non-final and its only transition is the SIGMA
\* self-loop.
C29_TrapUnmodified ==
    nodes[trap_node] = [is_final |-> FALSE, transitions |-> (SIGMA :> trap_node)]

\* C29 witness: a minimized automaton whose completed automaton holds the
\* trap node and had a transition to it before completion walked over it
C29_Witness ==
    /\ stage = "DCMFA"
    /\ trap_node \in Reachable(nodes, dca)
    /\ \E n \in Reachable(nodes, dca) \ {trap_node} :
          LowerA \in DOMAIN nodes[n].transitions /\ nodes[n].transitions[LowerA] = trap_node

-----------------------------------------------------------------------------
(* The derivation table.                                                   *)

\* the set reached from the set S by the label c: the targets of c from the
\* nodes of S and everything "" reaches from them
Move(ns, S, c) == NDFA_expand(ns, UNION {NDN_read(ns, n, c) : n \in S})

\* the labels of the nodes of S other than ""
LabelsOf(ns, S) == (UNION {DOMAIN ns[n].transitions : n \in S}) \ {EmptyLabel}

\* the sets reachable from the sets of frontier by label transitions
RECURSIVE SetsFrom(_, _, _)
SetsFrom(ns, known, frontier) ==
    IF frontier = {} THEN known
    ELSE SetsFrom(ns, known \cup frontier,
            {Move(ns, S, c) : S \in frontier, c \in LabelsOf(ns, UNION frontier)}
                \ (known \cup frontier \cup {{}}))

\* the table T built from the nodes ns: its rows are the sets reachable from
\* the closure of the initial node, each row has one cell per label of its
\* nodes, the set that label reaches, and every cell is a row
TableIsReachableSets(ns, initial, T) ==
    /\ T.stack = <<>>
    /\ Range(T.keys) = SetsFrom(ns, {}, {NDFA_expand(ns, {initial})})
    /\ DOMAIN T.rows = Range(T.keys)
    /\ \A S \in Range(T.keys) :
          /\ DOMAIN T.rows[S] = LabelsOf(ns, S)
          /\ \A c \in DOMAIN T.rows[S] :
                T.rows[S][c] = Move(ns, S, c) /\ T.rows[S][c] \in Range(T.keys)

\* C30: the worklist loop of DFA.from_ndfa ends, and the table then holds
\* exactly the sets of NDFA nodes reachable from the closure of the initial
\* node by a label followed by closure; every cell is a row, so linking
\* the deterministic nodes finds every set it looks up.
C30_TableComplete ==
    [][FromNdfa =>
        /\ TableIsReachableSets(nodes, nda, DFA_from_ndfa(Heap, nda).table)
        /\ Cardinality(Reachable(nodes', da')) = Len(DFA_from_ndfa(Heap, nda).table.keys)]_vars

\* C30 witness: a DFA of at least three states in which a state is the
\* target of a state made after it (a cell that was already a row)
C30_Witness ==
    /\ stage = "DFA"
    /\ Cardinality(Reachable(nodes, da)) >= 3
    /\ \E x \in Reachable(nodes, da) : \E y \in Reachable(nodes, da) :
          x >= y /\ y \in Range(nodes[x].transitions)

====
